---- MODULE Spec2Model ----
(***************************************************************************)
(* The realtime event-fanout relay of apps/ws/src/server.ts: a Fastify     *)
(* process that keeps the set `clients` of websocket handles registered by *)
(* GET /ws and pushes one frame per POST /events/todo-created to every     *)
(* handle of the set.                                                      *)
(*                                                                         *)
(* The process is single threaded.  The event loop runs one callback at a  *)
(* time, so each callback is one action.                                   *)
(*                                                                         *)
(* The other programs of the repository that the relay works with are      *)
(* modelled next to it: the origin application, the page and the command   *)
(* add-websocket.                                                          *)
(*                                                                         *)
(* The origin application's POST /api/todos (apps/web/src/app/api/todos/   *)
(* route.ts) inserts a todo and notifies the relay; its handler is         *)
(* suspended at each await, so each continuation is one action.            *)
(*                                                                         *)
(* Specifications:                                                         *)
(*   Spec          the relay: connections, ingestion calls of any body     *)
(*   SpecLife      the relay with stream errors and restarts               *)
(*   SpecHealth    the relay with GET /health                              *)
(*   SpecVariants  the relay, each call served by either server variant    *)
(*   SpecWire      the relay fed with every kind of request body           *)
(*   SpecLoop      the relay with its loops seen iteration by iteration    *)
(*   SpecOrigin    the origin handler in front of the relay                *)
(*   SpecPage      the page of a browser, the origin and the relay         *)
(*   SpecCli       the command add-websocket in a project directory        *)
(***************************************************************************)
EXTENDS Integers, Sequences, FiniteSets, TLC

(* ------------------------------ bounds -------------------------------- *)

\* number of websocket handles the clients may open
MaxConns == 2
\* number of ingestion calls the origin application may make
MaxCalls == 2

Conns == 1..MaxConns

(* --------------------------- request inputs --------------------------- *)

\* the ingestion requests of the model: a content-type header and a raw
\* body (a JSON object, or a text that is not JSON)
Requests == {
    [ctype |-> "application/json", raw |-> "{\"id\":7}"],
    [ctype |-> "application/json", raw |-> "oops"],
    [ctype |-> "text/plain", raw |-> "oops"] }

\* JSON values a handler can see in req.body
Undefined == [t |-> "undefined"]
JsonString(s) == [t |-> "string", s |-> s]
JsonObject(id) == [t |-> "object", id |-> id]
SyntaxError == [t |-> "SyntaxError"]

\* JSON.parse on the raw bodies of the model
JSONParse(raw) ==
    CASE raw = "{\"id\":7}" -> JsonObject(7)
      [] raw = "{\"id\":8}" -> JsonObject(8)
      [] raw = "{\"id\":9}" -> JsonObject(9)
      [] OTHER -> SyntaxError

\* JSON.stringify of a JSON value; undefined has no JSON text
JSONStringifyValue(v) ==
    CASE v.t = "object" -> "{\"id\":" \o ToString(v.id) \o "}"
      [] v.t = "string" -> "\"" \o v.s \o "\""
      [] OTHER -> ""

\* JSON.stringify({ type, payload }): a property whose value is undefined is
\* left out of the object
JSONStringify(type, payload) ==
    IF payload = Undefined
    THEN "{\"type\":\"" \o type \o "\"}"
    ELSE "{\"type\":\"" \o type \o "\",\"payload\":" \o JSONStringifyValue(payload) \o "}"

\* Fastify's content-type parsing, which runs before the route handler
\* (the application registers no parser of its own, so Fastify's two
\* built-in ones apply: application/json and text/plain).  The result is
\* either the value of req.body or the status Fastify answers with, without
\* calling the handler ("none": the request has no content-type header).
ParseBody(ctype, raw) ==
    CASE ctype = "application/json" ->
            IF raw = "" \/ JSONParse(raw) = SyntaxError
            THEN [ok |-> FALSE, status |-> 400]
            ELSE [ok |-> TRUE, body |-> JSONParse(raw)]
      [] ctype = "text/plain" -> [ok |-> TRUE, body |-> JsonString(raw)]
      [] ctype = "none" ->
            IF raw = ""
            THEN [ok |-> TRUE, body |-> Undefined]
            ELSE [ok |-> FALSE, status |-> 415]
      [] OTHER -> [ok |-> FALSE, status |-> 415]

(* ------------------------------- state -------------------------------- *)

VARIABLES
    conn,        \* conn[c]: state of websocket handle c
    clients,     \* the Set `clients`, in insertion order (a Set iterates so)
    closes,      \* closes[c]: "close" events delivered for c (0, 1, 2 = more)
    sendThrows,  \* the build's ws library: does send on a non-open socket throw
    calls,       \* calls[k]: the k-th ingestion call processed and what it did
    sent,        \* sent[c]: frames pushed into the outbound stream of c
    regAt,       \* regAt[c]: number of calls answered when c was registered
    health,      \* the last answer of GET /health (Undefined: not asked yet)
    web,         \* web[r]: the r-th POST /api/todos of the origin application
    deploy,      \* the deployment: is WS_INTERNAL_URL set, how the relay is
    loop,        \* the event loop of the relay seen iteration by iteration
    page,        \* the state of the Home component of page.tsx in a browser
    disk         \* the project directory add-websocket runs in, and its run

vars == <<conn, clients, closes, sendThrows, calls, sent, regAt,
          health, web, deploy, loop, page, disk>>

\* the parts of the state that belong to one specification only
rest == <<loop, page, disk>>

\* what the relay's websocket and ingestion callbacks never touch
others == <<health, web, deploy, rest>>

\* "new":     no handshake yet for this handle
\* "open":    handshake done, readyState OPEN
\* "broken":  readyState is no longer OPEN (the peer went away, the closing
\*            handshake began, the stream failed); "close" not yet emitted
\* "errored": the stream emitted "error"; "close" not yet emitted
\* "closed":  "close" was emitted
\* "gone":    the process that held the handle has exited
ConnStates == {"new", "open", "broken", "errored", "closed", "gone"}

Range(s) == {s[i] : i \in 1..Len(s)}

\* mutant: the registry is replaced by the new handle instead of extended
SetAddReplace(set, c) == <<c>>

\* Set.prototype.add: no effect on a member, else appended
SetAdd(set, c) == IF c \in Range(set) THEN set ELSE Append(set, c)

\* mutant: the removal of a member empties the registry
SetDeleteClear(set, c) == IF c \in Range(set) THEN <<>> ELSE set

\* mutant: array-style removal, splice(indexOf(c), 1): for a non-member
\* indexOf is -1 and the last element is removed
SetDeleteSplice(set, c) ==
    IF c \in Range(set) THEN SelectSeq(set, LAMBDA x : x # c)
    ELSE SubSeq(set, 1, Len(set) - 1)

\* Set.prototype.delete: no effect on a non-member, never throws
SetDelete(set, c) == SelectSeq(set, LAMBDA x : x # c)

\* mutant: the copy misses the last member
ArrayFromDropLast(set) == SubSeq(set, 1, Len(set) - 1)

\* Array.from(clients): a copy of the members in insertion order
ArrayFrom(set) == set

Init ==
    /\ conn = [c \in Conns |-> "new"]
    /\ clients = <<>>
    /\ closes = [c \in Conns |-> 0]
    /\ sendThrows \in BOOLEAN
    /\ calls = <<>>
    /\ sent = [c \in Conns |-> <<>>]
    /\ regAt = [c \in Conns |-> 0]
    /\ health = Undefined
    /\ web = <<>>
    /\ deploy = [wsUrl |-> FALSE, relay |-> "up"]
    /\ loop = Undefined
    /\ page = Undefined
    /\ disk = Undefined

\* the frame of call k: `call` names the ingestion call the text was built for
Frame(k, message) == [call |-> k, text |-> message]

\* number of frames of call k in an outbound stream
Copies(stream, k) == Cardinality({i \in 1..Len(stream) : stream[i].call = k})

(* ----------------------- connection life cycle ------------------------ *)

\* mutant: a client that comes back is given the handle it had before
WsRouteReuse(c) ==
    /\ conn[c] \in {"new", "closed"}
    /\ \A d \in Conns : d < c => conn[d] # "new"
    /\ conn' = [conn EXCEPT ![c] = "open"]
    /\ clients' = SetAdd(clients, c)
    /\ regAt' = [regAt EXCEPT ![c] = Len(calls)]
    /\ UNCHANGED <<closes, sendThrows, calls, sent>>

\* mutant: a new connection is first sent the messages of the earlier calls
WsRouteCatchUp(c) ==
    /\ conn[c] = "new"
    /\ \A d \in Conns : d < c => conn[d] # "new"
    /\ conn' = [conn EXCEPT ![c] = "open"]
    /\ clients' = SetAdd(clients, c)
    /\ regAt' = [regAt EXCEPT ![c] = Len(calls)]
    /\ sent' = [sent EXCEPT ![c] =
          [j \in 1..Len(calls) |-> [call |-> j, text |-> calls[j].message]]]
    /\ UNCHANGED <<closes, sendThrows, calls>>

\* app.get("/ws", ...): a client completed the handshake on a fresh handle c
\* (handles are numbered in the order of their handshakes); the handle is
\* added to the set and its "close" listener installed
WsRoute(c) ==
    /\ conn[c] = "new"
    /\ \A d \in Conns : d < c => conn[d] # "new"
    /\ conn' = [conn EXCEPT ![c] = "open"]
    /\ clients' = SetAdd(clients, c)
    /\ regAt' = [regAt EXCEPT ![c] = Len(calls)]
    /\ UNCHANGED <<closes, sendThrows, calls, sent>>

\* the socket of c leaves readyState OPEN; the server has installed no
\* listener that hears of it before "close" (no "error" listener either)
SocketBreaks(c) ==
    /\ conn[c] = "open"
    /\ conn' = [conn EXCEPT ![c] = "broken"]
    /\ UNCHANGED <<clients, closes, sendThrows, calls, sent, regAt>>

\* mutant: the "close" listener does not delete the handle
OnCloseNoDelete(c) ==
    /\ conn[c] \notin {"new", "gone"}
    /\ conn' = [conn EXCEPT ![c] = "closed"]
    /\ closes' = [closes EXCEPT ![c] = IF @ < 2 THEN @ + 1 ELSE @]
    /\ UNCHANGED <<clients, sendThrows, calls, sent, regAt>>

\* conn.socket.on("close", () => clients.delete(conn.socket)); the listener
\* also runs when the signal is repeated for a closed handle (a handle of
\* an exited process has no listener left)
OnClose(c) ==
    /\ conn[c] \notin {"new", "gone"}
    /\ conn' = [conn EXCEPT ![c] = "closed"]
    /\ clients' = SetDelete(clients, c)
    /\ closes' = [closes EXCEPT ![c] = IF @ < 2 THEN @ + 1 ELSE @]
    /\ UNCHANGED <<sendThrows, calls, sent, regAt>>

(* ----------------------------- ingestion ------------------------------ *)

\* client.send(message) on handle c: "ok" queues the frame on an open socket;
\* on a socket that is no longer open the ws library of the build either
\* throws or drops the frame
SendOutcome(c) ==
    IF conn[c] = "open" THEN "ok"
    ELSE IF sendThrows THEN "throw" ELSE "dropped"

\* mutant: the frame is put in front of the frames already queued
PushFront(stream, frame) == <<frame>> \o stream

\* the frame is appended to the outbound stream of the socket
Push(stream, frame) == Append(stream, frame)

\* mutant: a replay buffer, every iteration also sends the earlier messages
FramesForReplay(k, message) ==
    [j \in 1..k |-> IF j = k THEN Frame(k, message)
                              ELSE Frame(j, calls[j].message)]

\* mutant: every iteration sends the message twice (a retry)
FramesForTwice(k, message) == <<Frame(k, message), Frame(k, message)>>

\* the frames one iteration of the loop sends: the message of this call
FramesFor(k, message) == <<Frame(k, message)>>

RECURSIVE PushAll(_, _)
PushAll(stream, frames) ==
    IF frames = <<>> THEN stream
    ELSE PushAll(Push(stream, Head(frames)), Tail(frames))

\* for (const client of Array.from(clients)) client.send(message);
\* acc.out: the outbound streams, acc.attempts: the handles send was called
\* on, acc.threw: a send threw and the loop was left
RECURSIVE FanoutLoop(_, _, _, _, _)
FanoutLoop(targets, i, k, message, acc) ==
    IF i > Len(targets) THEN acc
    ELSE LET c == targets[i]
             r == SendOutcome(c)
             tried == [acc EXCEPT !.attempts = Append(@, c)]
         IN  CASE r = "throw" -> [tried EXCEPT !.threw = TRUE]
               [] r = "ok" ->
                    FanoutLoop(targets, i + 1, k, message,
                        [tried EXCEPT !.out[c] = PushAll(@, FramesFor(k, message))])
               [] OTHER -> FanoutLoop(targets, i + 1, k, message, tried)

\* mutant: the catch block answers 204 as well
ReplyStatusAlways204(threw) == 204

\* return reply.status(204).send() at the end of the try block,
\* return reply.status(400).send() in the catch block
ReplyStatus(threw) == IF threw THEN 400 ELSE 204

\* mutant: the handler unregisters the handles whose send failed
PostTodoCreatedPruning(ctype, raw) ==
    /\ Len(calls) < MaxCalls
    /\ LET k == Len(calls) + 1
           p == ParseBody(ctype, raw)
       IN  IF p.ok
           THEN LET message == JSONStringify("todo:created", p.body)
                    targets == ArrayFrom(clients)
                    r == FanoutLoop(targets, 1, k, message,
                             [out |-> sent, attempts |-> <<>>, threw |-> FALSE])
                IN  /\ sent' = r.out
                    /\ clients' = SelectSeq(clients,
                          LAMBDA c : ~(c \in Range(r.attempts) /\ conn[c] # "open"))
                    /\ calls' = Append(calls,
                          [ctype |-> ctype, raw |-> raw, handled |-> TRUE,
                           via |-> "copy", stringified |-> 1,
                           status |-> ReplyStatus(r.threw),
                           message |-> message,
                           snap |-> targets,
                           attempts |-> r.attempts,
                           reg |-> Range(clients),
                           connAt |-> conn])
           ELSE /\ sent' = sent
                /\ clients' = clients
                /\ calls' = Append(calls,
                      [ctype |-> ctype, raw |-> raw, handled |-> FALSE,
                       via |-> "copy", stringified |-> 0,
                       status |-> p.status, message |-> "", snap |-> <<>>,
                       attempts |-> <<>>,
                       reg |-> {},
                       connAt |-> [c \in Conns |-> "new"]])
    /\ UNCHANGED <<conn, closes, sendThrows, regAt>>

\* app.post("/events/todo-created", ...), lines 15-26.  Fastify parses the
\* body and either answers itself or calls the handler.  The handler's only
\* suspension point is `await req.body` on a value that is no promise: its
\* continuation is the next microtask, which runs before any other callback
\* of the event loop, so the whole handler is one step.
\* calls[k] keeps, next to what the handler computed, the registry and the
\* connection states the handler found (reg, connAt) when it ran, which
\* variant of the server ran it (via), and how often it called
\* JSON.stringify (stringified: once, on line 18, before the loop).
PostTodoCreated(ctype, raw) ==
    /\ Len(calls) < MaxCalls
    /\ LET k == Len(calls) + 1
           p == ParseBody(ctype, raw)
       IN  IF p.ok
           THEN LET message == JSONStringify("todo:created", p.body)
                    targets == ArrayFrom(clients)
                    r == FanoutLoop(targets, 1, k, message,
                             [out |-> sent, attempts |-> <<>>, threw |-> FALSE])
                IN  /\ sent' = r.out
                    /\ calls' = Append(calls,
                          [ctype |-> ctype, raw |-> raw, handled |-> TRUE,
                           via |-> "copy", stringified |-> 1,
                           status |-> ReplyStatus(r.threw),
                           message |-> message,
                           snap |-> targets,
                           attempts |-> r.attempts,
                           reg |-> Range(clients),
                           connAt |-> conn])
           ELSE /\ sent' = sent
                /\ calls' = Append(calls,
                      [ctype |-> ctype, raw |-> raw, handled |-> FALSE,
                       via |-> "copy", stringified |-> 0,
                       status |-> p.status, message |-> "", snap |-> <<>>,
                       attempts |-> <<>>,
                       reg |-> {},
                       connAt |-> [c \in Conns |-> "new"]])
    /\ UNCHANGED <<conn, clients, closes, sendThrows, regAt>>

Next ==
    \/ \E c \in Conns : WsRoute(c) /\ UNCHANGED others
    \/ \E c \in Conns : SocketBreaks(c) /\ UNCHANGED others
    \/ \E c \in Conns : OnClose(c) /\ UNCHANGED others
    \/ \E req \in Requests :
          PostTodoCreated(req.ctype, req.raw) /\ UNCHANGED others

Spec == Init /\ [][Next]_vars

TypeOK ==
    /\ conn \in [Conns -> ConnStates]
    /\ Range(clients) \subseteq Conns
    /\ closes \in [Conns -> 0..2]
    /\ Len(calls) <= MaxCalls
    /\ \A c \in Conns : regAt[c] <= Len(calls)

(* ------------- the server variant that iterates the live set ---------- *)

\* unnamed/part_004, lines 19-21:
\*   for (const c of clients) c.send(JSON.stringify({ type, payload: data }))
\* The loop reads the set `clients` itself at every iteration (the iterator
\* of a Set visits members added while it runs), and builds the text anew
\* for every member: acc.stringified counts the calls of JSON.stringify.
RECURSIVE FanoutLoopLive(_, _, _, _)
FanoutLoopLive(i, k, data, acc) ==
    IF i > Len(clients) THEN acc
    ELSE LET c == clients[i]
             r == SendOutcome(c)
             message == JSONStringify("todo:created", data)
             tried == [acc EXCEPT !.attempts = Append(@, c),
                                  !.stringified = @ + 1]
         IN  CASE r = "throw" -> [tried EXCEPT !.threw = TRUE]
               [] r = "ok" ->
                    FanoutLoopLive(i + 1, k, data,
                        [tried EXCEPT !.out[c] = PushAll(@, FramesFor(k, message))])
               [] OTHER -> FanoutLoopLive(i + 1, k, data, tried)

\* unnamed/part_004, lines 16-26: the same handler around that loop.  No
\* callback runs between two iterations (send returns without yielding), so
\* this handler is one step as well.
PostTodoCreatedLive(ctype, raw) ==
    /\ Len(calls) < MaxCalls
    /\ LET k == Len(calls) + 1
           p == ParseBody(ctype, raw)
       IN  IF p.ok
           THEN LET r == FanoutLoopLive(1, k, p.body,
                             [out |-> sent, attempts |-> <<>>, threw |-> FALSE,
                              stringified |-> 0])
                IN  /\ sent' = r.out
                    /\ calls' = Append(calls,
                          [ctype |-> ctype, raw |-> raw, handled |-> TRUE,
                           via |-> "live", stringified |-> r.stringified,
                           status |-> ReplyStatus(r.threw),
                           message |-> JSONStringify("todo:created", p.body),
                           snap |-> clients,
                           attempts |-> r.attempts,
                           reg |-> Range(clients),
                           connAt |-> conn])
           ELSE /\ sent' = sent
                /\ calls' = Append(calls,
                      [ctype |-> ctype, raw |-> raw, handled |-> FALSE,
                       via |-> "live", stringified |-> 0,
                       status |-> p.status, message |-> "", snap |-> <<>>,
                       attempts |-> <<>>,
                       reg |-> {},
                       connAt |-> [c \in Conns |-> "new"]])
    /\ UNCHANGED <<conn, clients, closes, sendThrows, regAt>>

\* each call is served by one of the two variants of the server
NextVariants ==
    \/ \E c \in Conns : WsRoute(c) /\ UNCHANGED others
    \/ \E c \in Conns : SocketBreaks(c) /\ UNCHANGED others
    \/ \E c \in Conns : OnClose(c) /\ UNCHANGED others
    \/ PostTodoCreated("application/json", "{\"id\":7}") /\ UNCHANGED others
    \/ PostTodoCreatedLive("application/json", "{\"id\":7}") /\ UNCHANGED others

SpecVariants == Init /\ [][NextVariants]_vars

(* ------------------------- every kind of body -------------------------- *)

\* the ingestion requests with, in addition, a request without body and
\* content-type and one of a content type Fastify has no parser for
WireRequests ==
    Requests \cup { [ctype |-> "none", raw |-> ""],
                    [ctype |-> "application/xml", raw |-> "<a/>"] }

NextWire ==
    \/ \E c \in Conns : WsRoute(c) /\ UNCHANGED others
    \/ \E req \in WireRequests :
          PostTodoCreated(req.ctype, req.raw) /\ UNCHANGED others

SpecWire == Init /\ [][NextWire]_vars

(* --------------- the event loop, iteration by iteration ---------------- *)

\* The handlers above are one step each because Node runs a callback to its
\* end before it takes the next event.  Here that is spelled out: the
\* network delivers handshakes and closures at any moment, also while a
\* fanout loop is between two iterations; Node queues them (loop.pending)
\* and runs their listeners when no callback is running.
\* loop.fan: the ingestion handlers that have begun and not yet answered,
\* loop.during: the calls during whose loop a handshake or closure arrived.

\* no callback is running: the loops of lines 19-21 hold no await, so a
\* handler that has begun is running until it has answered
NoCallbackRunning == loop.fan = <<>>

\* the calls whose handler has begun and not yet answered
Running == {loop.fan[n].k : n \in 1..Len(loop.fan)}

\* the handshake of handle c completes on the network
NetConnect(c) ==
    /\ conn[c] = "new"
    /\ <<"connect", c>> \notin loop.pending
    /\ \A d \in Conns : d < c => conn[d] # "new" \/ <<"connect", d>> \in loop.pending
    /\ loop' = [loop EXCEPT !.pending = @ \cup {<<"connect", c>>},
                            !.during = @ \cup Running]
    /\ UNCHANGED <<conn, clients, closes, sendThrows, calls, sent, regAt,
                   health, web, deploy, page, disk>>

\* the peer of handle c closes the connection on the network
NetClose(c) ==
    /\ conn[c] = "open"
    /\ <<"close", c>> \notin loop.pending
    /\ loop' = [loop EXCEPT !.pending = @ \cup {<<"close", c>>},
                            !.during = @ \cup Running]
    /\ UNCHANGED <<conn, clients, closes, sendThrows, calls, sent, regAt,
                   health, web, deploy, page, disk>>

\* Node runs the /ws handler for a queued handshake
DispatchConnect(c) ==
    /\ NoCallbackRunning
    /\ <<"connect", c>> \in loop.pending
    /\ WsRoute(c)
    /\ loop' = [loop EXCEPT !.pending = @ \ {<<"connect", c>>}]
    /\ UNCHANGED <<health, web, deploy, page, disk>>

\* mutant: the close listener runs while a handler is between two iterations
DispatchCloseAnytime(c) ==
    /\ <<"close", c>> \in loop.pending
    /\ OnClose(c)
    /\ loop' = [loop EXCEPT !.pending = @ \ {<<"close", c>>}]
    /\ UNCHANGED <<health, web, deploy, page, disk>>

\* Node runs the close listener for a queued closure
DispatchClose(c) ==
    /\ NoCallbackRunning
    /\ <<"close", c>> \in loop.pending
    /\ OnClose(c)
    /\ loop' = [loop EXCEPT !.pending = @ \ {<<"close", c>>}]
    /\ UNCHANGED <<health, web, deploy, page, disk>>

\* mutant: a handler begins while another one is between two iterations
LoopBeginAnytime(via, ctype, raw) ==
    /\ Len(calls) + Len(loop.fan) < MaxCalls
    /\ LET k == Len(calls) + Len(loop.fan) + 1
           p == ParseBody(ctype, raw)
       IN  /\ p.ok
           /\ loop' = [loop EXCEPT !.fan = Append(@,
                 [k |-> k, via |-> via, ctype |-> ctype, raw |-> raw,
                  data |-> p.body,
                  message |-> JSONStringify("todo:created", p.body),
                  targets |-> IF via = "copy" THEN ArrayFrom(clients) ELSE <<>>,
                  snap |-> clients, i |-> 1, attempts |-> <<>>, threw |-> FALSE,
                  stringified |-> IF via = "copy" THEN 1 ELSE 0,
                  reg |-> Range(clients), connAt |-> conn])]
    /\ UNCHANGED <<conn, clients, closes, sendThrows, calls, sent, regAt,
                   health, web, deploy, page, disk>>

\* lines 15-19 of either variant: Fastify has parsed the body and calls the
\* handler, which reads req.body and reaches the loop; the server of
\* server.ts has its message and its copy of the set, the variant has
\* neither
LoopBegin(via, ctype, raw) ==
    /\ NoCallbackRunning
    /\ Len(calls) + Len(loop.fan) < MaxCalls
    /\ LET k == Len(calls) + Len(loop.fan) + 1
           p == ParseBody(ctype, raw)
       IN  /\ p.ok
           /\ loop' = [loop EXCEPT !.fan = Append(@,
                 [k |-> k, via |-> via, ctype |-> ctype, raw |-> raw,
                  data |-> p.body,
                  message |-> JSONStringify("todo:created", p.body),
                  targets |-> IF via = "copy" THEN ArrayFrom(clients) ELSE <<>>,
                  snap |-> clients, i |-> 1, attempts |-> <<>>, threw |-> FALSE,
                  stringified |-> IF via = "copy" THEN 1 ELSE 0,
                  reg |-> Range(clients), connAt |-> conn])]
    /\ UNCHANGED <<conn, clients, closes, sendThrows, calls, sent, regAt,
                   health, web, deploy, page, disk>>

\* what the loop of a handler walks: its copy, or the set itself
LoopTargets(f) == IF f.via = "copy" THEN f.targets ELSE clients

\* the loop of a handler has no iteration left, or a send threw
LoopOver(f) == f.threw \/ f.i > Len(LoopTargets(f))

\* one iteration of the loop of lines 19-21, client.send(text): FanoutLoop
\* over the one handle the iteration is about
LoopStep(n) ==
    /\ n \in 1..Len(loop.fan)
    /\ ~LoopOver(loop.fan[n])
    /\ LET f == loop.fan[n]
           text == IF f.via = "copy" THEN f.message
                   ELSE JSONStringify("todo:created", f.data)
           r == FanoutLoop(<<LoopTargets(f)[f.i]>>, 1, f.k, text,
                    [out |-> sent, attempts |-> f.attempts, threw |-> FALSE])
       IN  /\ sent' = r.out
           /\ loop' = [loop EXCEPT !.fan[n].i = @ + 1,
                                   !.fan[n].attempts = r.attempts,
                                   !.fan[n].stringified =
                                       IF f.via = "copy" THEN @ ELSE @ + 1,
                                   !.fan[n].threw = r.threw]
    /\ UNCHANGED <<conn, clients, closes, sendThrows, calls, regAt,
                   health, web, deploy, page, disk>>

\* lines 22-24: the loop is over and the handler answers
LoopEnd ==
    /\ loop.fan # <<>>
    /\ LoopOver(Head(loop.fan))
    /\ LET f == Head(loop.fan)
       IN  calls' = Append(calls,
              [ctype |-> f.ctype, raw |-> f.raw, handled |-> TRUE,
               via |-> f.via, stringified |-> f.stringified,
               status |-> ReplyStatus(f.threw),
               message |-> f.message,
               snap |-> f.snap,
               attempts |-> f.attempts,
               reg |-> f.reg,
               connAt |-> f.connAt])
    /\ loop' = [loop EXCEPT !.fan = Tail(@)]
    /\ UNCHANGED <<conn, clients, closes, sendThrows, sent, regAt,
                   health, web, deploy, page, disk>>

InitLoop ==
    /\ conn = [c \in Conns |-> "new"]
    /\ clients = <<>>
    /\ closes = [c \in Conns |-> 0]
    /\ sendThrows \in BOOLEAN
    /\ calls = <<>>
    /\ sent = [c \in Conns |-> <<>>]
    /\ regAt = [c \in Conns |-> 0]
    /\ health = Undefined
    /\ web = <<>>
    /\ deploy = [wsUrl |-> FALSE, relay |-> "up"]
    /\ loop = [fan |-> <<>>, pending |-> {}, during |-> {}]
    /\ page = Undefined
    /\ disk = Undefined

NextLoop ==
    \/ \E c \in Conns : NetConnect(c)
    \/ \E c \in Conns : NetClose(c)
    \/ \E c \in Conns : DispatchConnect(c)
    \/ \E c \in Conns : DispatchClose(c)
    \/ \E via \in {"copy", "live"} :
          LoopBegin(via, "application/json", "{\"id\":7}")
    \/ \E n \in 1..Len(loop.fan) : LoopStep(n)
    \/ LoopEnd

SpecLoop == InitLoop /\ [][NextLoop]_vars

(* ------------------ stream errors, restarts, /health ------------------ *)

\* the stream of c emits "error" (the socket failed); the server has
\* installed no "error" listener, so nothing of the server runs
StreamError(c) ==
    /\ conn[c] \in {"open", "broken"}
    /\ conn' = [conn EXCEPT ![c] = "errored"]
    /\ UNCHANGED <<clients, closes, sendThrows, calls, sent, regAt>>

\* mutant: the registry is kept across the restart
RestartKeepsRegistry ==
    /\ conn' = [c \in Conns |->
          IF conn[c] \in {"open", "broken", "errored"} THEN "gone" ELSE conn[c]]
    /\ clients' = clients
    /\ UNCHANGED <<closes, sendThrows, calls, sent, regAt>>

\* the process exits and is started again: every socket it held goes with
\* it, and line 8, `const clients = new Set()`, runs anew.  Nothing else of
\* the server is state; calls, sent, closes and regAt are the history of
\* what happened, which a restart does not rewrite.
Restart ==
    /\ conn' = [c \in Conns |->
          IF conn[c] \in {"open", "broken", "errored"} THEN "gone" ELSE conn[c]]
    /\ clients' = <<>>
    /\ UNCHANGED <<closes, sendThrows, calls, sent, regAt>>

\* mutant: healthy only while somebody is connected
HealthReplyWhenConnected == [ok |-> clients # <<>>]

\* async () => ({ ok: true })
HealthReply == [ok |-> TRUE]

\* app.get("/health", ...)
Health ==
    /\ health' = HealthReply
    /\ UNCHANGED <<conn, clients, closes, sendThrows, calls, sent, regAt,
                   web, deploy, rest>>

NextLife ==
    \/ \E c \in Conns : WsRoute(c) /\ UNCHANGED others
    \/ \E c \in Conns : StreamError(c) /\ UNCHANGED others
    \/ \E c \in Conns : OnClose(c) /\ UNCHANGED others
    \/ PostTodoCreated("application/json", "{\"id\":7}") /\ UNCHANGED others
    \/ Restart /\ UNCHANGED others

SpecLife == Init /\ [][NextLife]_vars

NextHealth ==
    \/ \E c \in Conns : WsRoute(c) /\ UNCHANGED others
    \/ \E c \in Conns : SocketBreaks(c) /\ UNCHANGED others
    \/ \E c \in Conns : OnClose(c) /\ UNCHANGED others
    \/ PostTodoCreated("application/json", "{\"id\":7}") /\ UNCHANGED others
    \/ Health

SpecHealth == Init /\ [][NextHealth]_vars

(* ------------------- origin application: POST /api/todos ---------------- *)

\* the requests the origin receives: denied by the rate limiter, refused by
\* createTodoSchema, or valid
OriginRequests == {"ratelimited", "invalid", "valid"}

\* how the relay is for the origin's fetch: "up" answers every request,
\* "down" refuses the connection (or the URL leads nowhere), "hang" accepts
\* the request and never answers
RelayModes == {"up", "down", "hang"}

ErrorBody(e) == [t |-> "error", error |-> e]

\* the id the database gives the next inserted row (a serial)
NextId == 7 + Cardinality({r \in 1..Len(web) : web[r].inserted # Undefined})

\* NextResponse.json(body, { status }): the handler has returned
Respond(req, status, body) ==
    [req EXCEPT !.pc = "done", !.status = status, !.body = body]

\* a POST /api/todos arrives; the handler runs up to `await aj.protect(req)`
\* (fetches: the calls of fetch the handler has made; after: the requests
\* that had been answered when this one arrived)
OriginPost(kind) ==
    /\ Len(web) < MaxCalls
    /\ web' = Append(web,
          [kind |-> kind, pc |-> "protect", inserted |-> Undefined,
           notif |-> "none", relayStatus |-> 0, fetches |-> 0,
           after |-> {q \in 1..Len(web) : web[q].pc = "done"},
           status |-> 0, body |-> Undefined])
    /\ UNCHANGED <<conn, clients, closes, sendThrows, calls, sent, regAt,
                   health, deploy, rest>>

\* mutant: the relay is notified before the body is validated
OriginProtectedNotifies(r) ==
    /\ web[r].pc = "protect"
    /\ web' = [web EXCEPT ![r] =
          CASE @.kind = "ratelimited" -> Respond(@, 429, ErrorBody("rate_limited"))
            [] @.kind = "invalid" ->
                 Respond([@ EXCEPT !.notif = "sent", !.fetches = @ + 1],
                         400, ErrorBody("invalid_input"))
            [] OTHER -> [@ EXCEPT !.pc = "insert"]]
    /\ UNCHANGED <<conn, clients, closes, sendThrows, calls, sent, regAt,
                   health, deploy, rest>>

\* lines 23-30: the rate limiter's decision arrives; a denied request is
\* answered 429, a body the schema refuses 400, else db.insert is called
OriginProtected(r) ==
    /\ web[r].pc = "protect"
    /\ web' = [web EXCEPT ![r] =
          CASE @.kind = "ratelimited" -> Respond(@, 429, ErrorBody("rate_limited"))
            [] @.kind = "invalid" -> Respond(@, 400, ErrorBody("invalid_input"))
            [] OTHER -> [@ EXCEPT !.pc = "insert"]]
    /\ UNCHANGED <<conn, clients, closes, sendThrows, calls, sent, regAt,
                   health, deploy, rest>>

\* mutant: the notification is not awaited, the handler returns at once
OriginInsertedNoAwait(r) ==
    /\ web[r].pc = "insert"
    /\ LET row == JsonObject(NextId)
       IN  web' = [web EXCEPT ![r] =
              IF deploy.wsUrl
              THEN Respond([@ EXCEPT !.inserted = row, !.notif = "sent",
                                     !.fetches = @ + 1], 201, row)
              ELSE Respond([@ EXCEPT !.inserted = row], 201, row)]
    /\ UNCHANGED <<conn, clients, closes, sendThrows, calls, sent, regAt,
                   health, deploy, rest>>

\* lines 30-41: the inserted row arrives.  With WS_INTERNAL_URL set the
\* handler calls fetch and is suspended on it (`await fetch(...)`), else it
\* returns 201 with the row.
OriginInserted(r) ==
    /\ web[r].pc = "insert"
    /\ LET row == JsonObject(NextId)
       IN  web' = [web EXCEPT ![r] =
              IF deploy.wsUrl
              THEN [@ EXCEPT !.pc = "fetch", !.inserted = row, !.notif = "sent",
                             !.fetches = @ + 1]
              ELSE Respond([@ EXCEPT !.inserted = row], 201, row)]
    /\ UNCHANGED <<conn, clients, closes, sendThrows, calls, sent, regAt,
                   health, deploy, rest>>

\* the relay serves the notification of request r: the whole handler of
\* POST /events/todo-created runs, then its answer is on its way back
RelayHandles(r) ==
    /\ web[r].notif = "sent"
    /\ deploy.relay = "up"
    /\ PostTodoCreated("application/json", JSONStringifyValue(web[r].inserted))
    /\ web' = [web EXCEPT ![r].notif = "answered",
                          ![r].relayStatus = calls'[Len(calls')].status]
    /\ UNCHANGED <<health, deploy, rest>>

\* mutant: a rejected fetch is tried once more
FetchFailsRetry(r) ==
    /\ web[r].notif = "sent"
    /\ deploy.relay = "down"
    /\ web' = [web EXCEPT ![r] =
          IF @.fetches < 2 THEN [@ EXCEPT !.fetches = @ + 1]
          ELSE [@ EXCEPT !.notif = "failed"]]
    /\ UNCHANGED <<conn, clients, closes, sendThrows, calls, sent, regAt,
                   health, deploy, rest>>

\* the relay cannot be reached: the promise of fetch is rejected
FetchFails(r) ==
    /\ web[r].notif = "sent"
    /\ deploy.relay = "down"
    /\ web' = [web EXCEPT ![r].notif = "failed"]
    /\ UNCHANGED <<conn, clients, closes, sendThrows, calls, sent, regAt,
                   health, deploy, rest>>

\* mutant: no .catch on the fetch, its rejection leaves the handler (500)
OriginReturnsNoCatch(r) ==
    /\ web[r].pc = "fetch"
    /\ web[r].notif \in {"answered", "failed"}
    /\ web' = [web EXCEPT ![r] =
          IF @.notif = "failed"
          THEN Respond(@, 500, ErrorBody("internal"))
          ELSE Respond(@, 201, @.inserted)]
    /\ UNCHANGED <<conn, clients, closes, sendThrows, calls, sent, regAt,
                   health, deploy, rest>>

\* lines 34-41: the awaited promise is settled, by the relay's answer of any
\* status or by a rejection that .catch(() => {}) swallows; the handler
\* resumes and returns 201 with the row
OriginReturns(r) ==
    /\ web[r].pc = "fetch"
    /\ web[r].notif \in {"answered", "failed"}
    /\ web' = [web EXCEPT ![r] = Respond(@, 201, @.inserted)]
    /\ UNCHANGED <<conn, clients, closes, sendThrows, calls, sent, regAt,
                   health, deploy, rest>>

\* the requests of the origin whose row was inserted
Inserted == {r \in 1..Len(web) : web[r].inserted # Undefined}

\* the relay as the origin finds it: nobody connected, or one connection,
\* open or no longer open
InitOrigin ==
    /\ \E st \in {"new", "open", "broken"} :
          /\ conn = [c \in Conns |-> IF c = 1 THEN st ELSE "new"]
          /\ clients = IF st = "new" THEN <<>> ELSE <<1>>
    /\ closes = [c \in Conns |-> 0]
    /\ sendThrows \in BOOLEAN
    /\ calls = <<>>
    /\ sent = [c \in Conns |-> <<>>]
    /\ regAt = [c \in Conns |-> 0]
    /\ health = Undefined
    /\ web = <<>>
    /\ deploy \in [wsUrl : BOOLEAN, relay : RelayModes]
    /\ loop = Undefined
    /\ page = Undefined
    /\ disk = Undefined

NextOrigin ==
    \/ \E kind \in OriginRequests : OriginPost(kind)
    \/ \E r \in 1..Len(web) : OriginProtected(r)
    \/ \E r \in 1..Len(web) : OriginInserted(r)
    \/ \E r \in 1..Len(web) : RelayHandles(r)
    \/ \E r \in 1..Len(web) : FetchFails(r)
    \/ \E r \in 1..Len(web) : OriginReturns(r)

SpecOrigin == InitOrigin /\ [][NextOrigin]_vars

(* ------------------------- the page, page.tsx -------------------------- *)

\* The Home component in one browser.  page.todos is the state `todos`,
\* page.fetch the progress of fetch("/api/todos") ("sent", "ready": the
\* response is on its way with page.data as its body, "applied"),
\* page.socket the websocket (it is handle 1 of the relay), page.rcvd the
\* number of frames of the socket that onmessage has been called with.

\* the rows of the store, newest first (orderBy(desc(todos.createdAt)))
RECURSIVE StoreDesc(_)
StoreDesc(r) ==
    IF r = 0 THEN <<>>
    ELSE IF web[r].inserted # Undefined
         THEN LET older == {q \in 1..Len(web) :
                              /\ web[q].inserted # Undefined
                              /\ web[q].inserted.id < web[r].inserted.id}
              IN  IF older = {} THEN <<web[r].inserted>>
                  ELSE <<web[r].inserted>> \o
                       StoreDesc(CHOOSE q \in older :
                           \A x \in older : web[x].inserted.id <= web[q].inserted.id)
         ELSE <<>>

\* the request whose row is the newest of the store (0: the store is empty)
Newest ==
    IF Inserted = {} THEN 0
    ELSE CHOOSE r \in Inserted :
            \A q \in Inserted : web[q].inserted.id <= web[r].inserted.id

\* JSON.parse of a frame, as far as onmessage looks at it
ParseFrame(text) ==
    IF \E id \in 7..9 : text = JSONStringify("todo:created", JsonObject(id))
    THEN [type |-> "todo:created",
          payload |-> JsonObject(CHOOSE id \in 7..9 :
                          text = JSONStringify("todo:created", JsonObject(id)))]
    ELSE [type |-> "other", payload |-> Undefined]

\* useEffect, lines 9-13: the fetch is sent and the websocket is created
PageMount ==
    /\ page.fetch = "none"
    /\ page' = [page EXCEPT !.fetch = "sent", !.socket = "connecting"]
    /\ UNCHANGED <<conn, clients, closes, sendThrows, calls, sent, regAt,
                   health, web, deploy, loop, disk>>

\* GET of route.ts, lines 14-20, serves the fetch of the page: the rows of
\* the store as they are now
GetTodos ==
    /\ page.fetch = "sent"
    /\ page' = [page EXCEPT !.fetch = "ready", !.data = StoreDesc(Newest)]
    /\ UNCHANGED <<conn, clients, closes, sendThrows, calls, sent, regAt,
                   health, web, deploy, loop, disk>>

\* lines 10-12, .then(setTodos): the list is replaced by the response
PageFetchApplied ==
    /\ page.fetch = "ready"
    /\ page' = [page EXCEPT !.fetch = "applied", !.todos = page.data]
    /\ UNCHANGED <<conn, clients, closes, sendThrows, calls, sent, regAt,
                   health, web, deploy, loop, disk>>

\* the handshake of the page's websocket is served by the relay
PageSocketOpens ==
    /\ page.socket = "connecting"
    /\ WsRoute(1)
    /\ page' = [page EXCEPT !.socket = "open"]
    /\ UNCHANGED <<health, web, deploy, loop, disk>>

\* socket.onmessage, lines 14-19: the next frame arrives and its payload is
\* put in front of the list
PageOnMessage ==
    /\ page.socket = "open"
    /\ page.rcvd < Len(sent[1])
    /\ LET msg == ParseFrame(sent[1][page.rcvd + 1].text)
       IN  page' = [page EXCEPT
              !.rcvd = @ + 1,
              !.todos = IF msg.type = "todo:created"
                        THEN <<msg.payload>> \o @ ELSE @]
    /\ UNCHANGED <<conn, clients, closes, sendThrows, calls, sent, regAt,
                   health, web, deploy, loop, disk>>

InitPage ==
    /\ conn = [c \in Conns |-> "new"]
    /\ clients = <<>>
    /\ closes = [c \in Conns |-> 0]
    /\ sendThrows \in BOOLEAN
    /\ calls = <<>>
    /\ sent = [c \in Conns |-> <<>>]
    /\ regAt = [c \in Conns |-> 0]
    /\ health = Undefined
    /\ web = <<>>
    /\ deploy = [wsUrl |-> TRUE, relay |-> "up"]
    /\ loop = Undefined
    /\ page = [fetch |-> "none", data |-> <<>>, todos |-> <<>>,
               socket |-> "none", rcvd |-> 0]
    /\ disk = Undefined

\* the page, the origin handlers that serve it and other users, the relay
NextPage ==
    \/ PageMount
    \/ GetTodos
    \/ PageFetchApplied
    \/ PageSocketOpens
    \/ PageOnMessage
    \/ OriginPost("valid")
    \/ \E r \in 1..Len(web) : OriginProtected(r)
    \/ \E r \in 1..Len(web) : OriginInserted(r)
    \/ \E r \in 1..Len(web) : RelayHandles(r)
    \/ \E r \in 1..Len(web) : OriginReturns(r)

SpecPage == InitPage /\ [][NextPage]_vars

(* ----------------------- add-websocket.ts, main ------------------------ *)

\* disk.files: what add-websocket looks at and writes in the project
\*   web         does apps/web exist
\*   ws          apps/ws: "absent", "user" (the project's own), "template"
\*   page, route page.tsx and the todos route: "absent", "orig", "template"
\*   envExample, env
\*               .env.example and .env: "absent", "plain" (no
\*               NEXT_PUBLIC_WS_URL in it), "ws" (has it), "appended"
\* disk.template: is one of the three template directories there
\* disk.pc: where main is; disk.exit, disk.why: how the last run ended;
\* disk.before: the files as they were when the run began

\* the text appended on lines 94 and 104 holds NEXT_PUBLIC_WS_URL
Includes(env) == env \in {"ws", "appended"}

\* lines 91-97 and 101-107: an env file that exists and does not yet hold
\* NEXT_PUBLIC_WS_URL gets the three variables appended
UpdateEnv(env) ==
    IF env # "absent" /\ ~Includes(env) THEN "appended" ELSE env

\* process.exit(code), or the end of main
Exit(code, why) == [disk EXCEPT !.pc = "exited", !.exit = code, !.why = why]

\* the command is started: lines 10-18, up to `await p.confirm(...)`
CliStart ==
    /\ disk.pc \in {"idle", "exited"}
    /\ disk' = [disk EXCEPT !.pc = "prompt", !.exit = 0, !.why = "running",
                            !.before = disk.files]
    /\ UNCHANGED <<conn, clients, closes, sendThrows, calls, sent, regAt,
                   health, web, deploy, loop, page>>

\* mutant: the test for an existing apps/ws is left out
CliConfirmedNoWsCheck(confirm) ==
    /\ disk.pc = "prompt"
    /\ disk' =
          CASE ~confirm -> Exit(0, "cancelled")
            [] ~disk.files.web -> Exit(1, "no-web")
            [] ~disk.template -> Exit(1, "no-template")
            [] OTHER -> [disk EXCEPT !.pc = "copyWs"]
    /\ UNCHANGED <<conn, clients, closes, sendThrows, calls, sent, regAt,
                   health, web, deploy, loop, page>>

\* lines 20-71: the answer to the prompt arrives; a refusal exits with 0,
\* a failed precondition with 1, else fs.copy of the service is called
CliConfirmed(confirm) ==
    /\ disk.pc = "prompt"
    /\ disk' =
          CASE ~confirm -> Exit(0, "cancelled")
            [] ~disk.files.web -> Exit(1, "no-web")
            [] disk.files.ws # "absent" -> Exit(1, "ws-exists")
            [] ~disk.template -> Exit(1, "no-template")
            [] OTHER -> [disk EXCEPT !.pc = "copyWs"]
    /\ UNCHANGED <<conn, clients, closes, sendThrows, calls, sent, regAt,
                   health, web, deploy, loop, page>>

\* lines 71-78: apps/ws is copied, fs.copy of page.tsx is called
CliCopiedWs ==
    /\ disk.pc = "copyWs"
    /\ disk' = [disk EXCEPT !.pc = "copyPage", !.files.ws = "template"]
    /\ UNCHANGED <<conn, clients, closes, sendThrows, calls, sent, regAt,
                   health, web, deploy, loop, page>>

\* lines 78-85: page.tsx is copied, fs.copy of route.ts is called
CliCopiedPage ==
    /\ disk.pc = "copyPage"
    /\ disk' = [disk EXCEPT !.pc = "copyRoute", !.files.page = "template"]
    /\ UNCHANGED <<conn, clients, closes, sendThrows, calls, sent, regAt,
                   health, web, deploy, loop, page>>

\* lines 85-92: route.ts is copied, .env.example is looked at
CliCopiedRoute ==
    /\ disk.pc = "copyRoute"
    /\ disk' = [disk EXCEPT !.pc = "envExample", !.files.route = "template"]
    /\ UNCHANGED <<conn, clients, closes, sendThrows, calls, sent, regAt,
                   health, web, deploy, loop, page>>

\* lines 89-102: .env.example is updated, .env is looked at
CliEnvExample ==
    /\ disk.pc = "envExample"
    /\ disk' = [disk EXCEPT !.pc = "env",
                            !.files.envExample = UpdateEnv(@)]
    /\ UNCHANGED <<conn, clients, closes, sendThrows, calls, sent, regAt,
                   health, web, deploy, loop, page>>

\* lines 99-119: .env is updated and main ends
CliEnv ==
    /\ disk.pc = "env"
    /\ disk' = [Exit(0, "ok") EXCEPT !.files.env = UpdateEnv(@)]
    /\ UNCHANGED <<conn, clients, closes, sendThrows, calls, sent, regAt,
                   health, web, deploy, loop, page>>

\* lines 121-125: a copy, a read or a write fails and the catch block
\* exits with 1; what the earlier steps wrote stays
CliIoError ==
    /\ disk.pc \in {"copyWs", "copyPage", "copyRoute", "envExample", "env"}
    /\ disk' = Exit(1, "io-error")
    /\ UNCHANGED <<conn, clients, closes, sendThrows, calls, sent, regAt,
                   health, web, deploy, loop, page>>

\* a project directory: with or without apps/web, apps/ws, env files and
\* templates
InitCli ==
    /\ conn = [c \in Conns |-> "new"]
    /\ clients = <<>>
    /\ closes = [c \in Conns |-> 0]
    /\ sendThrows = FALSE
    /\ calls = <<>>
    /\ sent = [c \in Conns |-> <<>>]
    /\ regAt = [c \in Conns |-> 0]
    /\ health = Undefined
    /\ web = <<>>
    /\ deploy = [wsUrl |-> FALSE, relay |-> "up"]
    /\ loop = Undefined
    /\ page = Undefined
    /\ \E hasWeb, template \in BOOLEAN :
       \E ws \in {"absent", "user"} :
       \E envExample, env \in {"absent", "plain", "ws"} :
          disk = [files |-> [web |-> hasWeb, ws |-> ws,
                             page |-> IF hasWeb THEN "orig" ELSE "absent",
                             route |-> IF hasWeb THEN "orig" ELSE "absent",
                             envExample |-> envExample, env |-> env],
                  template |-> template,
                  pc |-> "idle", exit |-> 0, why |-> "none",
                  before |-> [web |-> hasWeb, ws |-> ws,
                             page |-> IF hasWeb THEN "orig" ELSE "absent",
                             route |-> IF hasWeb THEN "orig" ELSE "absent",
                             envExample |-> envExample, env |-> env]]

NextCli ==
    \/ CliStart
    \/ \E confirm \in BOOLEAN : CliConfirmed(confirm)
    \/ CliCopiedWs
    \/ CliCopiedPage
    \/ CliCopiedRoute
    \/ CliEnvExample
    \/ CliEnv
    \/ CliIoError

SpecCli == InitCli /\ [][NextCli]_vars

(* ------------------------------ claims -------------------------------- *)

\* the calls whose handler ran (Fastify did not reject the body)
Handled == {k \in 1..Len(calls) : calls[k].handled}

\* the connections in a given state when the handler of call k ran
ConnsAt(k, state) == {c \in Conns : calls[k].connAt[c] = state}

\* the text the frames of call k must carry
EnvelopeText(k) ==
    JSONStringify("todo:created", ParseBody(calls[k].ctype, calls[k].raw).body)

\* C1: an envelope ingested while N connections are registered, all of them
\* open, is in the outbound stream of each of the N exactly once, with the
\* serialized envelope as its text.
C1_FanoutCompleteness ==
    \A k \in Handled :
        (\A c \in calls[k].reg : calls[k].connAt[c] = "open")
        => LET text == EnvelopeText(k)
           IN  \A c \in calls[k].reg :
                  /\ Copies(sent[c], k) = 1
                  /\ \A i \in 1..Len(sent[c]) :
                        sent[c][i].call = k => sent[c][i].text = text

C1_Witness ==
    \E k \in Handled :
        /\ Cardinality(calls[k].reg) >= 2
        /\ \A c \in calls[k].reg :
              calls[k].connAt[c] = "open" /\ Copies(sent[c], k) = 1

\* C2 (the claim as stated): when the snapshot holds a broken connection
\* whose send throws, next to open ones, every open connection of the
\* snapshot still gets the envelope and the call is answered 204.
C2_Isolation ==
    \A k \in Handled :
        (/\ sendThrows
         /\ ConnsAt(k, "broken") \cap calls[k].reg # {}
         /\ ConnsAt(k, "open") \cap calls[k].reg # {})
        => /\ calls[k].status = 204
           /\ \A c \in ConnsAt(k, "open") \cap calls[k].reg :
                 Copies(sent[c], k) = 1

\* C3: a connection registered after the fanout of an envelope has ended
\* never has that envelope in its outbound stream.
C3_NoRetroactiveDelivery ==
    \A c \in Conns :
        conn[c] # "new" => \A k \in 1..regAt[c] : Copies(sent[c], k) = 0

C3_Witness ==
    \E c \in Conns :
        /\ conn[c] # "new"
        /\ \E k \in 1..regAt[c] : \E d \in Conns : Copies(sent[d], k) = 1
        /\ sent[c] # <<>>

\* C4: a repeated close signal for a connection leaves the registry as the
\* first one left it, and no close signal for a connection changes the
\* membership of any other connection.
C4_IdempotentUnregister ==
    [][\/ clients' = clients
       \/ \A c \in Conns :
             OnClose(c) =>
                /\ closes[c] = 0
                /\ \A d \in Conns \ {c} :
                      (d \in Range(clients')) = (d \in Range(clients))]_vars

C4_Witness ==
    \E c, d \in Conns : c # d /\ closes[c] = 2 /\ d \in Range(clients)

\* C5 (the claim as stated): an ingestion call whose body is not parseable
\* JSON is answered with a 4xx status and pushes nothing.
C5_MalformedRejected ==
    \A k \in 1..Len(calls) :
        JSONParse(calls[k].raw) = SyntaxError
        => /\ calls[k].status \in 400..499
           /\ \A c \in Conns : Copies(sent[c], k) = 0

\* C6: the frames of every outbound stream are in the order in which their
\* ingestion calls were processed.
C6_OrderPreserved ==
    \A c \in Conns :
        \A i, j \in 1..Len(sent[c]) :
            i < j => sent[c][i].call < sent[c][j].call

C6_Witness ==
    \E c \in Conns : conn[c] = "open" /\ Len(sent[c]) >= 2

\* C7: the clients set holds exactly the connections that completed the
\* handshake and have not signaled closure, each of them once.
C7_RegistryMembership ==
    /\ Range(clients) = {c \in Conns : conn[c] \in {"open", "broken"}}
    /\ Len(clients) = Cardinality(Range(clients))

C7_Witness ==
    /\ \E c \in Conns : conn[c] = "closed"
    /\ \E c \in Conns : conn[c] = "broken" /\ c \in Range(clients)
    /\ Handled # {}

\* C8: a connection that signaled closure before an ingestion call gets
\* nothing of that call; when the other connections are open, each of them
\* gets the envelope and the call is answered 204.
C8_ClosedGetsNothing ==
    \A k \in Handled :
        /\ \A c \in ConnsAt(k, "closed") : Copies(sent[c], k) = 0
        /\ (ConnsAt(k, "closed") # {} /\ ConnsAt(k, "broken") = {})
           => /\ calls[k].status = 204
              /\ \A c \in ConnsAt(k, "open") : Copies(sent[c], k) = 1

C8_Witness ==
    \E k \in Handled :
        /\ \E c \in ConnsAt(k, "closed") : sent[c] # <<>>
        /\ \E c \in ConnsAt(k, "open") : Copies(sent[c], k) = 1
        /\ ConnsAt(k, "broken") = {}
        /\ calls[k].status = 204

\* C9: a step that changes an outbound stream leaves it with at most one
\* frame of each call and adds no frame of a call that was answered before
\* the step (the streams are empty at the start).
C9_AtMostOnce ==
    [][\/ sent' = sent
       \/ \A c \in Conns : \A k \in 1..Len(calls') :
             /\ Copies(sent'[c], k) <= 1
             /\ k <= Len(calls) => Copies(sent'[c], k) = Copies(sent[c], k)]_vars

C9_Witness ==
    /\ Len(calls) >= 2
    /\ calls[1].status = 400 /\ calls[1].handled
    /\ calls[2].status = 204
    /\ \E c \in Conns : Copies(sent[c], 1) = 1 /\ Copies(sent[c], 2) = 1

\* C10: a call answered 204 has called send on every connection registered
\* when it ran, in the order of the snapshot, whether or not the frame
\* reached the connection.
C10_AckAfterAttempts ==
    \A k \in 1..Len(calls) :
        calls[k].status = 204
        => /\ calls[k].attempts = calls[k].snap
           /\ Range(calls[k].attempts) = calls[k].reg

C10_Witness ==
    \E k \in Handled :
        /\ calls[k].status = 204
        /\ Len(calls[k].attempts) >= 2
        /\ \E c \in Range(calls[k].attempts) : Copies(sent[c], k) = 0

\* C11: a request whose row was inserted is answered 201 with that row and
\* nothing else, and it is answered as soon as the notification has failed
\* (relay down or unreachable), was answered with any status, or was never
\* sent because WS_INTERNAL_URL is unset.
C11_NotificationNeverFailsMutation ==
    \A r \in Inserted :
        /\ web[r].pc = "done" => web[r].status = 201 /\ web[r].body = web[r].inserted
        /\ web[r].notif = "none" => web[r].pc = "done"
        /\ web[r].notif \in {"failed", "answered"}
           => web[r].pc = "done" \/ ENABLED OriginReturns(r)

\* a request got its 201 although the relay was down for it or answered 400
C11_Witness ==
    \E r \in Inserted :
        /\ web[r].pc = "done"
        /\ web[r].status = 201
        /\ \/ web[r].notif = "failed"
           \/ web[r].notif = "answered" /\ web[r].relayStatus = 400

\* the steps that bring a request suspended on its notification forward
OriginProgress(r) == RelayHandles(r) \/ FetchFails(r) \/ OriginReturns(r)

\* C12: the origin handler does not block its response on the relay's fanout:
\* while the notification is with the relay and not yet answered, the handler
\* is able to return its 201.
C12_FireAndForget ==
    \A r \in Inserted :
        deploy.relay = "up" /\ web[r].notif = "sent" /\ web[r].pc # "done"
        => ENABLED OriginReturns(r)

\* C13: a relay that accepts the notification and never answers does not
\* stall the origin: a handler that has inserted its row and has not yet
\* answered always has a step to take.
C13_RelayCannotStallOrigin ==
    \A r \in Inserted : web[r].pc # "done" => ENABLED OriginProgress(r)

\* C14: a connection whose push failed during a fanout is not in the registry
\* once that fanout has ended.
C14_RemovedOnDeliveryFailure ==
    \A k \in Handled :
        \A c \in Range(calls[k].attempts) :
            calls[k].connAt[c] # "open" => c \notin Range(clients)

\* C15: no connection whose stream has signalled an error stays registered.
C15_RemovedOnError ==
    \A c \in Conns : conn[c] = "errored" => c \notin Range(clients)

\* the connection changes and the frames a step may make for handles of an
\* exited process: none
GoneStaysGone(c) ==
    conn[c] = "gone"
    => conn'[c] = "gone" /\ sent'[c] = sent[c] /\ c \notin Range(clients')

\* C16: no ingestion call, handled or rejected, changes the registry; a step
\* that changes it is the connect handler or the close handler.
C16_IngestionLeavesRegistry ==
    [][\/ clients' = clients
       \/ calls' = calls /\ \E c \in Conns : WsRoute(c) \/ OnClose(c)]_vars

\* calls were made, one rejected and one handled with a connection that was
\* no longer open, and the registry still holds that connection
C16_Witness ==
    /\ \E k \in 1..Len(calls) : ~calls[k].handled
    /\ \E k \in Handled :
          \E c \in calls[k].reg :
              calls[k].connAt[c] = "broken" /\ c \in Range(clients)

\* C17: GET /health answers { ok: true } whatever the state of the relay is,
\* and leaves that state as it was.
C17_HealthUnconditional ==
    [][/\ ENABLED Health
       /\ \/ health' = health
          \/ /\ health' = [ok |-> TRUE]
             /\ UNCHANGED <<conn, clients, closes, sendThrows, calls, sent, regAt>>]_vars

\* /health has answered after a call was answered 400 and while a connection
\* that is no longer open is registered
C17_Witness ==
    /\ health = [ok |-> TRUE]
    /\ \E k \in Handled : calls[k].status = 400
    /\ \E c \in Range(clients) : conn[c] = "broken"

\* C18: a restart leaves the registry empty; the connections the old process
\* held are never registered again and get no frame afterwards; and no step
\* after it pushes a frame of a call that was ingested before.
C18_StatelessRestart ==
    [][/\ Restart => clients' = <<>>
       /\ \A c \in Conns : GoneStaysGone(c)
       /\ \/ sent' = sent
          \/ \A c \in Conns : \A k \in 1..Len(calls) :
                Copies(sent'[c], k) = Copies(sent[c], k)]_vars

\* connection c got a frame, the relay restarted, and a connection opened
\* afterwards got the frame of a later call, which c did not get
C18_Witness ==
    \E c, d \in Conns :
        /\ conn[c] = "gone"
        /\ sent[c] # <<>>
        /\ conn[d] = "open"
        /\ \E k \in Handled :
              Copies(sent[d], k) = 1 /\ Copies(sent[c], k) = 0 /\ regAt[c] < k

\* C19: every frame pushed for a call is the JSON text of an object with a
\* type, "todo:created", and a payload, the request body as it was received;
\* all connections get the same text for the same call.
C19_WireShape ==
    \A k \in Handled :
        LET body == ParseBody(calls[k].ctype, calls[k].raw).body
        IN  \A c \in Conns : \A i \in 1..Len(sent[c]) :
                sent[c][i].call = k
                => /\ body # Undefined
                   /\ sent[c][i].text =
                         "{\"type\":\"todo:created\",\"payload\":"
                             \o JSONStringifyValue(body) \o "}"
                   /\ \A d \in Conns : \A j \in 1..Len(sent[d]) :
                         sent[d][j].call = k => sent[d][j].text = sent[c][i].text

\* C20: the frames of a call are only in the streams of the connections that
\* were in the registry when its fanout began, all of them registered before
\* the call; this for the server that copies the set and for the one that
\* iterates it.
C20_SnapshotFixesTargets ==
    \A k \in Handled : \A c \in Conns :
        Copies(sent[c], k) >= 1 => c \in calls[k].reg /\ regAt[c] < k

\* a call served by the variant that iterates the live set reached a
\* connection, and a connection registered after it has the frame of a
\* later call only
C20_Witness ==
    \E k \in Handled : \E c, d \in Conns :
        /\ calls[k].via = "live"
        /\ Copies(sent[c], k) = 1
        /\ regAt[d] >= k
        /\ Copies(sent[d], k) = 0
        /\ \E j \in Handled : j > k /\ Copies(sent[d], j) = 1

\* C21: a handshake or a closure that arrives while a fanout is in progress
\* does not touch the registry before the fanout has ended, and the fanout
\* is not aborted by it: a call whose connections were all open when it
\* began is answered 204 after one send to each of them, in the order of
\* the registry, and each has one frame of it.  The registry holds the open
\* connections, each once, at every moment.
C21_MembershipChangeHarmless ==
    /\ Range(clients) = {c \in Conns : conn[c] = "open"}
    /\ Len(clients) = Cardinality(Range(clients))
    /\ \A n \in 1..Len(loop.fan) : clients = loop.fan[n].snap
    /\ \A k \in Handled \cap loop.during :
          (\A c \in calls[k].reg : calls[k].connAt[c] = "open")
          => /\ calls[k].status = 204
             /\ calls[k].attempts = calls[k].snap
             /\ \A c \in calls[k].reg : Copies(sent[c], k) = 1

\* a call to two connections was answered; a handshake or closure arrived
\* while it was between two iterations, one of the two has been closed by
\* its peer, and every queued listener has run since
C21_Witness ==
    \E k \in Handled \cap loop.during :
        /\ Cardinality(calls[k].reg) >= 2
        /\ \E c \in calls[k].reg : conn[c] = "closed" /\ Copies(sent[c], k) = 1
        /\ loop.pending = {}

\* C22: a call that has somebody to push to serializes its envelope exactly
\* once, and every frame of the call carries that one text.
C22_SerializedOnce ==
    \A k \in Handled :
        calls[k].reg # {}
        => /\ calls[k].stringified = 1
           /\ \A c \in Conns : \A i \in 1..Len(sent[c]) :
                 sent[c][i].call = k => sent[c][i].text = calls[k].message

\* C23: a connection that has been registered and is no longer in the
\* registry is not added to it again by any step, and no frame is pushed to
\* it any more.
C23_ClosedIsTerminal ==
    [][\/ clients' = clients /\ sent' = sent
       \/ \A c \in Conns :
             conn[c] # "new" /\ c \notin Range(clients)
             => c \notin Range(clients') /\ sent'[c] = sent[c]]_vars

\* a connection that got a frame was closed, and a connection opened later
\* on a new handle has the frame of a later call, which the closed one has
\* not
C23_Witness ==
    \E c, d \in Conns :
        /\ c < d
        /\ conn[c] = "closed" /\ sent[c] # <<>>
        /\ conn[d] = "open" /\ d \in Range(clients)
        /\ \E k \in Handled : Copies(sent[d], k) = 1 /\ Copies(sent[c], k) = 0

\* C24: the close listener of a connection takes that connection out of the
\* registry and no other; and a call made after a connection was closed,
\* with every registered connection open, pushes exactly one frame, its own,
\* to each registered connection.
C24_TrackedIndependently ==
    [][\/ clients' = clients /\ calls' = calls
       \/ /\ \A c \in Conns :
                OnClose(c) => Range(clients') = Range(clients) \ {c}
          /\ (/\ calls' # calls
              /\ calls'[Len(calls')].handled
              /\ \E c \in Conns : conn[c] = "closed"
              /\ \A d \in Range(clients) : conn[d] = "open")
             => \A d \in Range(clients) :
                   sent'[d] = Append(sent[d],
                       [call |-> Len(calls'), text |-> calls'[Len(calls')].message])]_vars

\* two connections were registered for one call; one of them was closed, and
\* the other one, still registered, has the frame of a later call
C24_Witness ==
    \E c, d \in Conns :
        /\ c # d
        /\ conn[c] = "closed"
        /\ d \in Range(clients)
        /\ \E j, k \in Handled :
              /\ j < k
              /\ {c, d} \subseteq calls[j].reg
              /\ calls[k].connAt[c] = "closed"
              /\ Copies(sent[d], k) = 1

\* C25: at most one ingestion handler is between the first and the last
\* iteration of its loop, and two frames that are in the streams of two
\* connections are in the same order in both.
C25_SerialIngestion ==
    /\ Len(loop.fan) <= 1
    /\ \A c, d \in Conns :
          \A i, j \in 1..Len(sent[c]) : \A m, n \in 1..Len(sent[d]) :
              (/\ i < j
               /\ sent[c][i].call # sent[c][j].call
               /\ sent[d][m].call = sent[c][i].call
               /\ sent[d][n].call = sent[c][j].call)
              => m < n

\* two connections have the frames of the same two calls, one of them
\* served by the variant that iterates the live set
C25_Witness ==
    \E c, d \in Conns :
        /\ c # d
        /\ Len(calls) >= 2
        /\ \E k \in Handled : calls[k].via = "live"
        /\ Copies(sent[c], 1) = 1 /\ Copies(sent[c], 2) = 1
        /\ Copies(sent[d], 1) = 1 /\ Copies(sent[d], 2) = 1

\* the body of the ingestion request for the row of request r, and the frame
\* the relay makes of it
RowJson(r) == JSONStringifyValue(web[r].inserted)
RowFrame(r) == JSONStringify("todo:created", web[r].inserted)

\* C26: a request whose row was inserted has called fetch once if
\* WS_INTERNAL_URL is set and never if it is not, whatever became of the
\* call; a request without row has never called it; and the relay has seen
\* at most one ingestion call for a row.
C26_OneNotificationPerMutation ==
    /\ \A r \in 1..Len(web) :
          web[r].fetches = IF r \in Inserted /\ deploy.wsUrl THEN 1 ELSE 0
    /\ \A r \in Inserted :
          Cardinality({k \in 1..Len(calls) : calls[k].raw = RowJson(r)}) <= 1

\* a notification failed and its request was answered, after one fetch
C26_Witness ==
    \E r \in Inserted :
        web[r].pc = "done" /\ web[r].notif = "failed" /\ web[r].fetches = 1

\* C27: a request that has notified the relay has its row; a request that
\* was answered 429 or 400 has no row and has not notified; every ingestion
\* call the relay has seen, and every frame it has pushed, is for a row that
\* is in the store.
C27_NoNotificationWithoutRow ==
    /\ \A r \in 1..Len(web) :
          /\ web[r].notif # "none" => r \in Inserted
          /\ web[r].kind # "valid" /\ web[r].pc = "done"
             => /\ web[r].status = IF web[r].kind = "ratelimited" THEN 429 ELSE 400
                /\ r \notin Inserted
                /\ web[r].notif = "none"
    /\ \A k \in 1..Len(calls) : \E r \in Inserted : calls[k].raw = RowJson(r)
    /\ \A c \in Conns : \A i \in 1..Len(sent[c]) :
          \E r \in Inserted : sent[c][i].text = RowFrame(r)

\* a request was refused, and the row of another one has reached a
\* connection
C27_Witness ==
    /\ \E r \in 1..Len(web) : web[r].kind # "valid" /\ web[r].pc = "done"
    /\ \E r \in Inserted : \E c \in Conns : \E i \in 1..Len(sent[c]) :
          sent[c][i].text = RowFrame(r)

Occurrences(list, row) == Cardinality({i \in 1..Len(list) : list[i] = row})

\* the rows the page was given: in the response of its fetch, or in a frame
\* pushed to its socket
GivenToPage ==
    Range(page.data) \cup
    {ParseFrame(sent[1][i].text).payload : i \in 1..Len(sent[1])}

\* C29: once the response of the fetch has been applied, every request has
\* been answered and every frame pushed to the socket has been received,
\* each row the page was given is in the displayed list exactly once.
C29_ListConsistent ==
    (/\ page.fetch = "applied"
     /\ page.rcvd = Len(sent[1])
     /\ \A r \in 1..Len(web) : web[r].pc = "done")
    => \A row \in GivenToPage : Occurrences(page.todos, row) = 1

\* the preconditions of add-websocket held when the run began
Preconditions ==
    disk.before.web /\ disk.before.ws = "absent" /\ disk.template

\* C30: a run that was confirmed in a directory without apps/web, with
\* apps/ws or without templates ends with exit code 1 for that reason, and
\* from its start to its end every file is as it was when it began.
C30_NothingOnFailedPrecondition ==
    (disk.pc \notin {"idle", "prompt"} /\ disk.why # "cancelled" /\ ~Preconditions)
    => /\ disk.pc = "exited"
       /\ disk.exit = 1
       /\ disk.why \in {"no-web", "ws-exists", "no-template"}
       /\ disk.files = disk.before

\* the second run after a successful one: it found the apps/ws that the
\* first run had copied and the env file that the first run had extended
C30_Witness ==
    /\ disk.pc = "exited"
    /\ disk.why = "ws-exists"
    /\ disk.before.ws = "template"
    /\ disk.before.page = "template"
    /\ disk.before.env = "appended"
    /\ disk.files = disk.before

====
